---- MODULE Spec2Model ----
(***************************************************************************)
(* Model of saleor_flat_tax_plugin: the flat-tax arithmetic of             *)
(* __init__.py (flat_tax, apply_tax_to_price, the checkout discount        *)
(* proration) and the stage methods of FlatTaxPlugin in plugin.py (the     *)
(* skip predicate, tax-rate resolution, the order-line proration).         *)
(*                                                                         *)
(* Amounts are Python Decimals.  A Decimal is modelled as an exact         *)
(* fraction [n, d] in lowest terms, in major currency units, so that       *)
(* Decimal(".0001") is 1/10000 and one cent is 1/100.  Products, sums and  *)
(* differences of the amounts used here are exact in Python's 28-digit     *)
(* context; a quotient is kept exact here, which differs from Python's     *)
(* 28-digit quotient by less than 1e-27 relative.                          *)
(***************************************************************************)
EXTENDS Integers, Sequences, FiniteSets, TLC

VARIABLES
    active,       \* FlatTaxPlugin.active (BasePlugin attribute)
    flat_taxes,   \* FlatTaxPlugin.flat_taxes: rate name -> percentage
    rounding,     \* rounding mode of the decimal context used by quantize
    call,         \* the last call made on the plugin or the library: inputs and result
    request,      \* the checkout or order being priced by the host
    progress      \* per-line results of the pricing of request

vars == <<active, flat_taxes, rounding, call, request, progress>>

-----------------------------------------------------------------------------
(* Decimal arithmetic *)

Abs(n) == IF n < 0 THEN -n ELSE n

RECURSIVE GCD(_, _)
GCD(a, b) == IF b = 0 THEN a ELSE GCD(b, a % b)

\* The Decimal n/d (d > 0), in lowest terms so that equal values are equal records.
Dec(n, d) == LET g == GCD(Abs(n), d) IN [n |-> n \div g, d |-> d \div g]

Zero == Dec(0, 1)
\* a and b over their least common denominator: <<numerator of a, numerator of b, denominator>>
Common(a, b, g) == <<a.n * (b.d \div g), b.n * (a.d \div g), (a.d \div g) * b.d>>
CommonDenominator(a, b) == Common(a, b, GCD(a.d, b.d))
DAdd(a, b) == LET c == CommonDenominator(a, b) IN Dec(c[1] + c[2], c[3])
DSub(a, b) == LET c == CommonDenominator(a, b) IN Dec(c[1] - c[2], c[3])
\* common factors are cancelled before the products are formed
DMul(a, b) ==
    LET x == Dec(a.n, b.d)
        y == Dec(b.n, a.d)
    IN  [n |-> x.n * y.n, d |-> x.d * y.d]
\* b # 0
DDiv(a, b) == IF b.n > 0 THEN DMul(a, [n |-> b.d, d |-> b.n]) ELSE DMul(a, [n |-> -b.d, d |-> -b.n])
DLess(a, b) == LET c == CommonDenominator(a, b) IN c[1] < c[2]
DLeq(a, b) == LET c == CommonDenominator(a, b) IN c[1] <= c[2]
\* Python's max(a, b): b only when it is strictly greater
DMax(a, b) == IF DLess(a, b) THEN b ELSE a
DInt(k) == Dec(k, 1)

\* the exponent e of the first significant digit of n/d > 0: 10^e <= n/d < 10^(e+1)
RECURSIVE Exponent10(_, _)
Exponent10(n, d) == IF n >= 10 * d THEN Exponent10(n, 10 * d) + 1 ELSE IF n < d THEN Exponent10(10 * n, d) - 1 ELSE 0

\* (n * 10^m) % d
RECURSIVE ShiftMod(_, _, _)
ShiftMod(n, m, d) == IF m <= 0 THEN n % d ELSE ShiftMod((n * 10) % d, m - 1, d)

RECURSIVE Pow10(_)
Pow10(k) == IF k = 0 THEN 1 ELSE 10 * Pow10(k - 1)

\* the decimal expansion of a fraction of denominator d (in lowest terms) terminates
RECURSIVE Terminating(_)
Terminating(d) == IF d % 2 = 0 THEN Terminating(d \div 2) ELSE IF d % 5 = 0 THEN Terminating(d \div 5) ELSE d = 1

RoundingModes == {"ROUND_HALF_EVEN", "ROUND_HALF_UP"}

\* n/d (d > 0) rounded to the nearest integer, a tie going to the even
\* neighbour (ROUND_HALF_EVEN) or away from zero (ROUND_HALF_UP).
RoundRatio(n, d, mode) ==
    LET fl == n \div d
        r2 == 2 * (n % d)
    IN  IF r2 < d THEN fl
        ELSE IF r2 > d THEN fl + 1
        ELSE IF mode = "ROUND_HALF_EVEN" THEN (IF fl % 2 = 0 THEN fl ELSE fl + 1)
        ELSE (IF n >= 0 THEN fl + 1 ELSE fl)

\* a cut down to a multiple of exp, no rounding
quantize_truncating(a, exp, mode) == LET q == DDiv(a, exp) IN DMul(DInt(q.n \div q.d), exp)

\* Decimal.quantize(exp): a rounded to a multiple of exp (exp = 10^-k > 0)
quantize(a, exp, mode) == LET q == DDiv(a, exp) IN DMul(DInt(RoundRatio(q.n, q.d, mode)), exp)

\* flat_tax's default precision, Decimal(".0001")
precision == Dec(1, 10000)

\* saleor.core.prices.quantize_price for a Decimal: the currency's standard
\* precision, two digits for the currency of the model
currency_exp == Dec(1, 100)

quantize_price(a, mode) == quantize(a, currency_exp, mode)

-----------------------------------------------------------------------------
(* Values *)

\* Python's None, where a string is expected
None == "<None>"

META_CODE_KEY == "flattax.code"
META_DESCRIPTION_KEY == "flattax.description"
DEFAULT_TAX_RATE_NAME == "standard"

Money(a) == [kind |-> "Money", amount |-> a]
TaxedMoney(net, gross) == [kind |-> "TaxedMoney", net |-> net, gross |-> gross]
MoneyRange(start, stop) == [kind |-> "MoneyRange", start |-> start, stop |-> stop]
TaxedMoneyRange(start, stop) == [kind |-> "TaxedMoneyRange", start |-> start, stop |-> stop]
DecimalValue(a) == [kind |-> "Decimal", value |-> a]
TaxType(code, description) == [kind |-> "TaxType", code |-> code, description |-> description]
OrderTaxedPricesData(undiscounted, discounted) == [kind |-> "OrderTaxedPricesData", undiscounted_price |-> undiscounted, price_with_discounts |-> discounted]
NoneValue == [kind |-> "None"]
Raised(exception) == [kind |-> "Error", exception |-> exception]

zero_money == Money(Zero)

\* TaxedMoney * quantity
TaxedTimes(taxed, quantity) == TaxedMoney(DMul(taxed.net, DInt(quantity)), DMul(taxed.gross, DInt(quantity)))

-----------------------------------------------------------------------------
(* __init__.py: flat tax *)

\* flat_tax(base, tax_rate, *, keep_gross=False, precision=Decimal(".0001"))
RECURSIVE flat_tax(_, _, _, _)

\* flat_tax deriving each side of a TaxedMoney from the other side
flat_tax_across(base, tax_rate, keep_gross, mode) ==
    CASE base.kind \in {"MoneyRange", "TaxedMoneyRange"} ->
            TaxedMoneyRange(flat_tax(base.start, tax_rate, keep_gross, mode), flat_tax(base.stop, tax_rate, keep_gross, mode))
      [] base.kind = "TaxedMoney" ->
            IF keep_gross
            THEN TaxedMoney(quantize(DDiv(base.gross, DAdd(DInt(1), tax_rate)), precision, mode), base.gross)
            ELSE TaxedMoney(base.net, quantize(DMul(base.net, DAdd(DInt(1), tax_rate)), precision, mode))
      [] base.kind = "Money" ->
            IF keep_gross
            THEN TaxedMoney(quantize(DDiv(base.amount, DAdd(DInt(1), tax_rate)), precision, mode), base.amount)
            ELSE TaxedMoney(base.amount, quantize(DMul(base.amount, DAdd(DInt(1), tax_rate)), precision, mode))
      [] OTHER -> Raised("TypeError")

flat_tax(base, tax_rate, keep_gross, mode) ==
    LET fraction == DAdd(DInt(1), tax_rate) IN
    CASE base.kind \in {"MoneyRange", "TaxedMoneyRange"} ->
            LET start == flat_tax(base.start, tax_rate, keep_gross, mode)
                stop == flat_tax(base.stop, tax_rate, keep_gross, mode)
            IN  IF start.kind = "Error" THEN start
                ELSE IF stop.kind = "Error" THEN stop
                ELSE TaxedMoneyRange(start, stop)
      [] base.kind = "TaxedMoney" ->
            IF keep_gross
            THEN TaxedMoney(quantize(DDiv(base.net, fraction), precision, mode), base.gross)
            ELSE TaxedMoney(base.net, quantize(DMul(base.gross, fraction), precision, mode))
      [] base.kind = "Money" ->
            IF keep_gross
            THEN TaxedMoney(quantize(DDiv(base.amount, fraction), precision, mode), base.amount)
            ELSE TaxedMoney(base.amount, quantize(DMul(base.amount, fraction), precision, mode))
      [] OTHER -> Raised("TypeError")

\* get_tax_for_rate(tax_rates, rate_name): the closure `tax`, which is held
\* as the rate it closes over; None when the name has no rate
get_tax_for_rate(tax_rates, rate_name) ==
    IF rate_name \notin DOMAIN tax_rates THEN NoneValue
    ELSE [kind |-> "tax", final_tax_rate |-> Dec(tax_rates[rate_name], 100)]

\* tax(base, keep_gross) of get_tax_for_rate
tax(closure, base, keep_gross, mode) == flat_tax(base, closure.final_tax_rate, keep_gross, mode)

\* `taxes` is None or a dict: rate name -> {"value", "tax"}
EmptyRates == [name \in {} |-> NoneValue]
NoTaxes == [none |-> TRUE, rates |-> EmptyRates]
TaxesDict(rates) == [none |-> FALSE, rates |-> rates]
\* Python's `not taxes`: None or the empty dict
NotTaxes(taxes) == taxes.none \/ DOMAIN taxes.rates = {}
\* Python's `not rate_name`: None or the empty string
NotName(rate_name) == rate_name = None \/ rate_name = ""

RECURSIVE apply_tax_to_price(_, _, _, _, _)

\* _convert_to_naive_taxed_money(base, taxes, rate_name)
_convert_to_naive_taxed_money(base, taxes, rate_name, include_taxes_in_prices, mode) ==
    CASE base.kind = "Money" -> TaxedMoney(base.amount, base.amount)
      [] base.kind = "MoneyRange" ->
            LET start == apply_tax_to_price(taxes, rate_name, base.start, include_taxes_in_prices, mode)
                stop == apply_tax_to_price(taxes, rate_name, base.stop, include_taxes_in_prices, mode)
            IN  IF start.kind = "Error" THEN start
                ELSE IF stop.kind = "Error" THEN stop
                ELSE TaxedMoneyRange(start, stop)
      [] base.kind \in {"TaxedMoney", "TaxedMoneyRange"} -> base
      [] OTHER -> Raised("TypeError")

\* apply_tax_to_price leaving the price untaxed when the table has neither
\* the name nor the default name
apply_tax_to_price_or_naive(taxes, rate_name, base, include_taxes_in_prices, mode) ==
    IF NotTaxes(taxes) \/ NotName(rate_name)
    THEN _convert_to_naive_taxed_money(base, taxes, rate_name, include_taxes_in_prices, mode)
    ELSE IF rate_name \in DOMAIN taxes.rates
    THEN tax(taxes.rates[rate_name].tax, base, include_taxes_in_prices, mode)
    ELSE IF DEFAULT_TAX_RATE_NAME \in DOMAIN taxes.rates
    THEN tax(taxes.rates[DEFAULT_TAX_RATE_NAME].tax, base, include_taxes_in_prices, mode)
    ELSE _convert_to_naive_taxed_money(base, NoTaxes, rate_name, include_taxes_in_prices, mode)

\* apply_tax_to_price(taxes, rate_name, base); include_taxes_in_prices() is
\* the host's site setting
apply_tax_to_price(taxes, rate_name, base, include_taxes_in_prices, mode) ==
    IF NotTaxes(taxes) \/ NotName(rate_name)
    THEN _convert_to_naive_taxed_money(base, taxes, rate_name, include_taxes_in_prices, mode)
    ELSE IF rate_name \in DOMAIN taxes.rates
    THEN tax(taxes.rates[rate_name].tax, base, include_taxes_in_prices, mode)
    ELSE IF DEFAULT_TAX_RATE_NAME \in DOMAIN taxes.rates
    THEN tax(taxes.rates[DEFAULT_TAX_RATE_NAME].tax, base, include_taxes_in_prices, mode)
    ELSE Raised("KeyError")

\* get_tax_rate_by_name(rate_name, taxes): the value of the table as it is
\* stored, a percentage
get_tax_rate_by_name(rate_name, taxes) ==
    IF NotTaxes(taxes) \/ NotName(rate_name) THEN DecimalValue(Zero)
    ELSE IF rate_name \in DOMAIN taxes.rates THEN DecimalValue(DInt(taxes.rates[rate_name].value))
    ELSE IF DEFAULT_TAX_RATE_NAME \in DOMAIN taxes.rates THEN DecimalValue(DInt(taxes.rates[DEFAULT_TAX_RATE_NAME].value))
    ELSE Raised("KeyError")

\* get_taxed_shipping_price(shipping_price, taxes); charge_taxes_on_shipping()
\* is the host's site setting
get_taxed_shipping_price(shipping_price, taxes, charge_taxes_on_shipping, include_taxes_in_prices, mode) ==
    apply_tax_to_price(IF charge_taxes_on_shipping THEN taxes ELSE NoTaxes, DEFAULT_TAX_RATE_NAME, shipping_price, include_taxes_in_prices, mode)

-----------------------------------------------------------------------------
(* plugin.py: the skip predicate and tax-rate resolution *)

\* the skip predicate without its test of self.active
_skip_plugin_of_active_plugin(previous_value) ==
    CASE previous_value.kind = "TaxedMoneyRange" ->
            /\ previous_value.start.net # previous_value.start.gross
            /\ previous_value.stop.net # previous_value.stop.gross
      [] previous_value.kind = "TaxedMoney" ->
            previous_value.net # previous_value.gross
      [] previous_value.kind = "OrderTaxedPricesData" ->
            previous_value.price_with_discounts.net # previous_value.price_with_discounts.gross
      [] OTHER -> FALSE

\* FlatTaxPlugin._skip_plugin(previous_value)
_skip_plugin(previous_value) ==
    IF ~active THEN TRUE
    ELSE CASE previous_value.kind = "TaxedMoneyRange" ->
                /\ previous_value.start.net # previous_value.start.gross
                /\ previous_value.stop.net # previous_value.stop.gross
           [] previous_value.kind = "TaxedMoney" ->
                previous_value.net # previous_value.gross
           [] previous_value.kind = "OrderTaxedPricesData" ->
                previous_value.price_with_discounts.net # previous_value.price_with_discounts.gross
           [] OTHER -> FALSE

\* FlatTaxPlugin._get_taxes()
_get_taxes == TaxesDict([tax_name \in DOMAIN flat_taxes |-> [value |-> flat_taxes[tax_name], tax |-> get_tax_for_rate(flat_taxes, tax_name)]])

\* obj.get_value_from_metadata(key, default)
get_value_from_metadata(obj, key, default) == IF key \in DOMAIN obj.metadata THEN obj.metadata[key] ELSE default

\* the tax code read with the default None for a product type too
__get_tax_code_defaulting_to_none(obj) ==
    TaxType(get_value_from_metadata(obj, META_CODE_KEY, None), get_value_from_metadata(obj, META_DESCRIPTION_KEY, None))

\* FlatTaxPlugin.__get_tax_code_from_object_meta(obj)
__get_tax_code_from_object_meta(obj) ==
    LET default_tax_code == IF obj.kind = "ProductType" THEN DEFAULT_TAX_RATE_NAME ELSE None
        default_tax_description == IF obj.kind = "ProductType" THEN DEFAULT_TAX_RATE_NAME ELSE None
    IN  TaxType(get_value_from_metadata(obj, META_CODE_KEY, default_tax_code), get_value_from_metadata(obj, META_DESCRIPTION_KEY, default_tax_description))

\* the tax data with the rate table whatever product.charge_taxes
__get_tax_data_charging_taxes(product) ==
    [taxes |-> _get_taxes,
     tax_rate |-> IF NotName(__get_tax_code_from_object_meta(product).code)
                  THEN __get_tax_code_from_object_meta(product.product_type).code
                  ELSE __get_tax_code_from_object_meta(product).code]

\* FlatTaxPlugin.__get_tax_data_for_product(product)
__get_tax_data_for_product(product) ==
    LET taxes == IF product.charge_taxes THEN _get_taxes ELSE NoTaxes
        product_tax_rate == __get_tax_code_from_object_meta(product).code
        tax_rate == IF NotName(product_tax_rate)
                    THEN __get_tax_code_from_object_meta(product.product_type).code
                    ELSE product_tax_rate
    IN  [taxes |-> taxes, tax_rate |-> tax_rate]

\* FlatTaxPlugin._get_tax_rate(product, address, previous_value)
_get_tax_rate(product, previous_value) ==
    IF _skip_plugin(previous_value) THEN previous_value
    ELSE LET data == __get_tax_data_for_product(product)
             taxes == data.taxes
             tax_rate == data.tax_rate
         IN  IF NotTaxes(taxes) \/ NotName(tax_rate) THEN previous_value
             ELSE IF tax_rate \in DOMAIN taxes.rates
             THEN DecimalValue(Dec(taxes.rates[tax_rate].value, 100))
             ELSE IF DEFAULT_TAX_RATE_NAME \in DOMAIN taxes.rates
             THEN DecimalValue(Dec(taxes.rates[DEFAULT_TAX_RATE_NAME].value, 100))
             ELSE Raised("TypeError")

\* FlatTaxPlugin.__apply_taxes_to_product(product, price)
__apply_taxes_to_product(product, price, include_taxes_in_prices) ==
    LET data == __get_tax_data_for_product(product)
    IN  apply_tax_to_price(data.taxes, data.tax_rate, price, include_taxes_in_prices, rounding)

-----------------------------------------------------------------------------
(* plugin.py: the stage methods.  Each takes the host's previous_value. *)

\* FlatTaxPlugin.apply_taxes_to_product(product, price, country, previous_value)
apply_taxes_to_product(product, price, previous_value, include_taxes_in_prices) ==
    IF _skip_plugin(previous_value) THEN previous_value
    ELSE __apply_taxes_to_product(product, price, include_taxes_in_prices)

\* FlatTaxPlugin.apply_taxes_to_shipping(price, shipping_address, previous_value)
apply_taxes_to_shipping(price, previous_value, charge_taxes_on_shipping, include_taxes_in_prices) ==
    IF _skip_plugin(previous_value) THEN previous_value
    ELSE get_taxed_shipping_price(price, _get_taxes, charge_taxes_on_shipping, include_taxes_in_prices, rounding)

\* FlatTaxPlugin.get_checkout_line_tax_rate(checkout_info, lines, checkout_line_info, address, discounts, previous_value)
get_checkout_line_tax_rate(product, previous_value) == _get_tax_rate(product, previous_value)

\* FlatTaxPlugin.get_order_line_tax_rate(order, product, variant, address, previous_value)
get_order_line_tax_rate(product, previous_value) == _get_tax_rate(product, previous_value)

\* FlatTaxPlugin._get_shipping_tax_rate(previous_value), behind
\* get_checkout_shipping_tax_rate and get_order_shipping_tax_rate
_get_shipping_tax_rate(previous_value) ==
    IF _skip_plugin(previous_value) THEN previous_value
    ELSE IF DEFAULT_TAX_RATE_NAME \in DOMAIN _get_taxes.rates
    THEN DecimalValue(Dec(_get_taxes.rates[DEFAULT_TAX_RATE_NAME].value, 100))
    ELSE Raised("TypeError")

\* FlatTaxPlugin.show_taxes_on_storefront(previous_value)
show_taxes_on_storefront(previous_value) == IF ~active THEN previous_value ELSE [kind |-> "bool", bool |-> FALSE]

\* FlatTaxPlugin.get_tax_code_from_object_meta(obj, previous_value)
get_tax_code_from_object_meta(obj, previous_value) == __get_tax_code_from_object_meta(obj)

\* FlatTaxPlugin.assign_tax_code_to_object_meta(obj, tax_code, previous_value):
\* the metadata obj is left with
assign_tax_code_metadata(obj, tax_code) ==
    IF ~active THEN obj.metadata
    ELSE IF tax_code = None /\ obj.pk THEN [key \in DOMAIN obj.metadata \ {META_CODE_KEY, META_DESCRIPTION_KEY} |-> obj.metadata[key]]
    ELSE IF tax_code # None THEN [key \in DOMAIN obj.metadata \cup {META_CODE_KEY, META_DESCRIPTION_KEY} |-> tax_code]
    ELSE obj.metadata

\* FlatTaxPlugin.assign_tax_code_to_object_meta(obj, tax_code, previous_value):
\* the value returned
assign_tax_code_to_object_meta(obj, tax_code, previous_value) == previous_value

-----------------------------------------------------------------------------
(* __init__.py: proration of an entire-order voucher over checkout lines *)

\* Python's sum() of a list of Decimals
RECURSIVE DSum(_)
DSum(seq) == IF seq = <<>> THEN Zero ELSE DAdd(Head(seq), DSum(Tail(seq)))

\* base_calculations.calculate_base_line_unit_price(line_info, channel,
\* discounts).amount * line_info.line.quantity
base_line_total(line) == DMul(line.price, DInt(line.quantity))

\* the voucher test that opens apply_checkout_discount_on_checkout_line
voucher_not_prorated(voucher) ==
    \/ voucher.kind = "None"
    \/ voucher.apply_once_per_order
    \/ voucher.type \in {"SHIPPING", "SPECIFIC_PRODUCT"}

\* lines_total_prices of apply_checkout_discount_on_checkout_line: the totals
\* of the lines other than line i, in list order (a line's id is its position)
lines_total_prices(lines, i) ==
    LET others == SelectSeq([k \in 1..Len(lines) |-> k], LAMBDA k: k # i)
    IN  [j \in 1..Len(others) |-> base_line_total(lines[others[j]])]

\* Decimal a / b * c in the decimal context, whose precision is 28
\* significant digits, against the exact a / b * c.  The quotient q = a / b
\* is exact when its expansion terminates; otherwise the context rounds it
\* to its 28th digit, r being the remainder dropped, and the quotient
\* computed is q + quotient_units / (q.d * 10^(27 - Exponent(q))).
quotient_units(r, d) == IF 2 * r > d THEN d - r ELSE -r

\* the product of the computed quotient and c, before the context rounds it,
\* is off the exact product by this many units of the exact product's 28th digit
product_units(units, c, d, shift) ==
    IF shift >= 0 THEN Dec(units * c.n * Pow10(shift), d * c.d) ELSE Dec(units * c.n, d * c.d * Pow10(-shift))

\* the sign of (computed product - exact product) once the context has
\* rounded the product to its 28th digit, for an exact product that ends
\* before that digit
units_sign(w, mode) ==
    IF 2 * Abs(w.n) < w.d THEN 0
    ELSE IF 2 * Abs(w.n) = w.d THEN (IF w.n > 0 /\ mode = "ROUND_HALF_UP" THEN 1 ELSE 0)
    ELSE IF w.n > 0 THEN 1 ELSE -1

Exponent(a) == Exponent10(a.n, a.d)

\* sign of (q * c as computed) - (q * c) for the exact quotient q
quotient_context_error(q, c, mode) ==
    IF q.n <= 0 \/ c.n <= 0 \/ Terminating(q.d) THEN 0
    ELSE units_sign(product_units(quotient_units(ShiftMod(q.n, 27 - Exponent(q), q.d), q.d), c, q.d,
                                  Exponent(q) - Exponent(DMul(q, c))), mode)

context_error(a, b, c, mode) == quotient_context_error(DDiv(a, b), c, mode)

\* quantize_price of a product computed as exact + error: an exact product
\* half-way between two cents is computed just above or just below it when
\* the quotient did not terminate
quantize_price_computed(exact, cents, error, mode) ==
    IF 2 * (cents.n % cents.d) = cents.d /\ error # 0
    THEN DMul(DInt((cents.n \div cents.d) + (IF error > 0 THEN 1 ELSE 0)), currency_exp)
    ELSE quantize_price(exact, mode)

\* every line given the whole discount as its share
whole_discount_share(line_total_price, total_price, total_discount_amount, mode) == total_discount_amount

\* the proportional share quantize_price(line_total_price / total_price *
\* total_discount_amount, currency); total_price # 0
proportional_share(line_total_price, total_price, total_discount_amount, mode) ==
    quantize_price_computed(DMul(DDiv(line_total_price, total_price), total_discount_amount),
                            DDiv(DMul(DDiv(line_total_price, total_price), total_discount_amount), currency_exp),
                            context_error(line_total_price, total_price, total_discount_amount, mode), mode)

\* _calculate_discount_for_last_element(lines_total_prices, total_price,
\* total_discount_amount, currency); total_price # 0
\* the last line given its own quantized share, like every other line
last_element_proportional_share(totals, total_price, total_discount_amount, mode) ==
    proportional_share(DSub(total_price, DSum(totals)), total_price, total_discount_amount, mode)

_calculate_discount_for_last_element(totals, total_price, total_discount_amount, mode) ==
    LET sum_of_discounts_other_elements ==
            DSum([j \in 1..Len(totals) |-> proportional_share(totals[j], total_price, total_discount_amount, mode)])
    IN  DSub(total_discount_amount, sum_of_discounts_other_elements)

\* discount_amount of apply_checkout_discount_on_checkout_line, for a
\* checkout of two or more lines whose total price is not zero
checkout_line_discount_amount(checkout, i, line_price, mode) ==
    LET lines == checkout.lines
        line_total_price == DMul(line_price, DInt(lines[i].quantity))
        totals == lines_total_prices(lines, i)
        total_price == DAdd(DSum(totals), line_total_price)
        last_element == Len(lines) = i
    IN  IF last_element
        THEN _calculate_discount_for_last_element(totals, total_price, checkout.discount_amount, mode)
        ELSE proportional_share(line_total_price, total_price, checkout.discount_amount, mode)

\* order_total_price of update_taxes_for_order_lines
order_total_price(lines) == DSum([k \in 1..Len(lines) |-> base_line_total(lines[k])])

\* the line's discounted price without the floor at zero
apply_checkout_discount_unfloored(checkout, i, line_price, mode) ==
    LET line_quantity == DInt(checkout.lines[i].quantity)
        line_total_price == DMul(line_price, line_quantity)
    IN  IF voucher_not_prorated(checkout.voucher) THEN Money(line_price)
        ELSE IF Len(checkout.lines) = 1
        THEN Money(DDiv(DSub(line_total_price, checkout.discount_amount), line_quantity))
        ELSE IF order_total_price(checkout.lines) = Zero THEN Raised("InvalidOperation")
        ELSE Money(quantize_price(DDiv(DSub(line_total_price, checkout_line_discount_amount(checkout, i, line_price, mode)), line_quantity), mode))

\* apply_checkout_discount_on_checkout_line(checkout_info, lines,
\* checkout_line_info, discounts, line_price), for the line at position i
apply_checkout_discount_on_checkout_line(checkout, i, line_price, mode) ==
    LET lines == checkout.lines
        line_quantity == DInt(lines[i].quantity)
        total_discount_amount == checkout.discount_amount
        line_total_price == DMul(line_price, line_quantity)
        total_price == DAdd(DSum(lines_total_prices(lines, i)), line_total_price)
    IN  IF voucher_not_prorated(checkout.voucher) THEN Money(line_price)
        ELSE IF Len(lines) = 1
        THEN Money(DMax(DDiv(DSub(line_total_price, total_discount_amount), line_quantity), Zero))
        \* Decimal 0 / Decimal 0
        ELSE IF total_price = Zero THEN Raised("InvalidOperation")
        ELSE LET discount_amount == checkout_line_discount_amount(checkout, i, line_price, mode)
             IN  Money(DMax(quantize_price(DDiv(DSub(line_total_price, discount_amount), line_quantity), mode), Zero))

\* FlatTaxPlugin.__calculate_checkout_line_unit_price(checkout_info, lines,
\* checkout_line_info, channel, discounts, address, previous_value)
__calculate_checkout_line_unit_price(checkout, i, previous_value, include_taxes_in_prices) ==
    IF _skip_plugin(previous_value) THEN NoneValue
    ELSE LET unit_price == apply_checkout_discount_on_checkout_line(checkout, i, checkout.lines[i].price, rounding)
         IN  IF unit_price.kind = "Error" THEN unit_price
             ELSE __apply_taxes_to_product(checkout.lines[i].product, unit_price, include_taxes_in_prices)

\* FlatTaxPlugin.calculate_checkout_line_total(checkout_info, lines,
\* checkout_line_info, address, discounts, previous_value)
calculate_checkout_line_total(checkout, i, previous_value, include_taxes_in_prices) ==
    LET unit_taxed_price == __calculate_checkout_line_unit_price(checkout, i, previous_value, include_taxes_in_prices)
    IN  IF unit_taxed_price.kind = "None" THEN previous_value
        ELSE IF unit_taxed_price.kind = "Error" THEN unit_taxed_price
        ELSE TaxedTimes(unit_taxed_price, checkout.lines[i].quantity)

\* FlatTaxPlugin.calculate_checkout_line_unit_price(checkout_info, lines,
\* checkout_line_info, address, discounts, previous_value)
calculate_checkout_line_unit_price(checkout, i, previous_value, include_taxes_in_prices) ==
    LET unit_taxed_price == __calculate_checkout_line_unit_price(checkout, i, previous_value, include_taxes_in_prices)
    IN  IF unit_taxed_price.kind = "None" THEN previous_value ELSE unit_taxed_price

-----------------------------------------------------------------------------
(* plugin.py: proration of the order discount over order lines *)

\* discount_amount of one pass of the loop of update_taxes_for_order_lines,
\* for a non-zero total discount: the remainder for the line that is
\* lines[-1], the quantized proportional share for any other
order_line_discount_amount(lines, k, total_discount_amount, total_line_discounts, mode) ==
    IF k = Len(lines)
    THEN DSub(total_discount_amount, total_line_discounts)
    ELSE proportional_share(base_line_total(lines[k]), order_total_price(lines), total_discount_amount, mode)

\* the quantized price of the line without the floor at zero
order_line_price_unfloored(line, discount_amount, mode) ==
    quantize_price(DDiv(DSub(base_line_total(line), discount_amount), DInt(line.quantity)), mode)

\* the floored price of the line left as the division gives it
order_line_price_unquantized(line, discount_amount, mode) ==
    DMax(DDiv(DSub(base_line_total(line), discount_amount), DInt(line.quantity)), Zero)

\* price_with_discounts of one pass of the loop, for a non-zero total discount
order_line_price_with_discounts(line, discount_amount, mode) ==
    DMax(quantize_price(DDiv(DSub(base_line_total(line), discount_amount), DInt(line.quantity)), mode), Zero)

\* the assignments of _update_line_prices to the line, given the three
\* values it computes; an exception raised by one of them is its outcome
assign_line_prices(line, unit_price, undiscounted_unit_price, tax_rate) ==
    IF unit_price.kind = "Error" THEN unit_price
    ELSE IF undiscounted_unit_price.kind = "Error" THEN undiscounted_unit_price
    ELSE IF tax_rate.kind = "Error" THEN tax_rate
    ELSE [kind |-> "OrderLine", price |-> line.price, quantity |-> line.quantity,
          has_variant |-> line.has_variant, product |-> line.product,
          undiscounted_base_unit_price |-> line.undiscounted_base_unit_price,
          unit_price |-> unit_price, undiscounted_unit_price |-> undiscounted_unit_price,
          total_price |-> TaxedTimes(unit_price, line.quantity),
          undiscounted_total_price |-> TaxedTimes(undiscounted_unit_price, line.quantity),
          tax_rate |-> tax_rate.value]

\* FlatTaxPlugin._update_line_prices(line, price_with_discounts, product, country)
_update_line_prices(line, price_with_discounts, product, include_taxes_in_prices) ==
    assign_line_prices(line,
        __apply_taxes_to_product(product, Money(price_with_discounts), include_taxes_in_prices),
        __apply_taxes_to_product(product, Money(line.undiscounted_base_unit_price), include_taxes_in_prices),
        _get_tax_rate(product, DecimalValue(Zero)))

\* The state of the loop of update_taxes_for_order_lines after the pass for
\* the line at position k: st holds the lines as updated so far,
\* total_line_discounts, the discount_amount and price_with_discounts each
\* pass computed, and the exception that ended the loop, if one did.
order_line_pass_end(st, k, discounted, discount_amount, price_with_discounts, updated) ==
    IF updated.kind = "Error" THEN [st EXCEPT !.raised = updated]
    ELSE [lines |-> [st.lines EXCEPT ![k] = updated],
          total_line_discounts |-> DAdd(st.total_line_discounts, discount_amount),
          discount_amount |-> [st.discount_amount EXCEPT ![k] = IF discounted THEN DecimalValue(discount_amount) ELSE NoneValue],
          price_with_discounts |-> [st.price_with_discounts EXCEPT ![k] = Money(price_with_discounts)],
          raised |-> st.raised]

\* the pass from the point where price_with_discounts is known
order_line_pass_priced(order, k, st, discount_amount, price_with_discounts, include_taxes_in_prices) ==
    order_line_pass_end(st, k, order.discount_amount # Zero, discount_amount, price_with_discounts,
        _update_line_prices(order.lines[k], price_with_discounts, order.lines[k].product, include_taxes_in_prices))

\* the pass from the point where discount_amount is known (zero when the
\* order has no discount and the branch `if total_discount_amount` is not taken)
order_line_pass_discounted(order, k, st, discount_amount, include_taxes_in_prices) ==
    order_line_pass_priced(order, k, st, discount_amount,
        IF order.discount_amount # Zero
        THEN order_line_price_with_discounts(order.lines[k], discount_amount, rounding)
        ELSE order.lines[k].price,
        include_taxes_in_prices)

\* one pass of the for loop of update_taxes_for_order_lines
order_line_pass(order, k, st, include_taxes_in_prices) ==
    IF ~order.lines[k].has_variant THEN st
    \* Decimal 0 / Decimal 0
    ELSE IF order.discount_amount # Zero /\ k # Len(order.lines) /\ order_total_price(order.lines) = Zero
    THEN [st EXCEPT !.raised = Raised("InvalidOperation")]
    ELSE order_line_pass_discounted(order, k, st,
            IF order.discount_amount # Zero
            THEN order_line_discount_amount(order.lines, k, order.discount_amount, st.total_line_discounts, rounding)
            ELSE Zero,
            include_taxes_in_prices)

\* the for loop of update_taxes_for_order_lines from the line at position k on
RECURSIVE order_lines_loop(_, _, _, _)
order_lines_loop(order, k, st, include_taxes_in_prices) ==
    IF k > Len(order.lines) \/ st.raised.kind = "Error" THEN st
    ELSE order_lines_loop(order, k + 1, order_line_pass(order, k, st, include_taxes_in_prices), include_taxes_in_prices)

\* FlatTaxPlugin.update_taxes_for_order_lines(order, lines, previous_value):
\* the state the call ends in; skipped when it returned previous_value
update_taxes_for_order_lines(order, previous_value, include_taxes_in_prices) ==
    IF _skip_plugin(previous_value)
    THEN [skipped |-> TRUE, returned |-> previous_value]
    ELSE LET st == order_lines_loop(order, 1,
                     [lines |-> order.lines, total_line_discounts |-> Zero,
                      discount_amount |-> [k \in 1..Len(order.lines) |-> NoneValue],
                      price_with_discounts |-> [k \in 1..Len(order.lines) |-> NoneValue],
                      raised |-> NoneValue],
                     include_taxes_in_prices)
         IN  [skipped |-> FALSE,
              returned |-> IF st.raised.kind = "Error" THEN st.raised ELSE [kind |-> "list", lines |-> st.lines],
              lines |-> st.lines,
              total_line_discounts |-> st.total_line_discounts,
              discount_amount |-> st.discount_amount,
              price_with_discounts |-> st.price_with_discounts]

-----------------------------------------------------------------------------
(* Bounds and input domains *)

\* amounts 0, 0.00005, ..., MaxAmount * 0.00005 are taxed
MaxAmount == 3
\* a checkout or an order has 1 .. MaxLines lines
MaxLines == 3
\* the total discount is 0 .. MaxDiscount cents
MaxDiscount == 4

RateNames == {DEFAULT_TAX_RATE_NAME, "custom"}
Percentages == {0, 10, 50}
\* every rate table over RateNames, the empty one included
RateTables == UNION {[names -> Percentages] : names \in SUBSET RateNames}
\* FlatTaxPlugin.DEFAULT_CONFIGURATION
DEFAULT_CONFIGURATION == [name \in {"standard", "custom"} |-> 10]

\* tax codes a product or product type may carry; "reduced" names no rate
TaxCodes == {"", "custom", "reduced"}
NoMetadata == [key \in {} |-> ""]
Metadatas == {NoMetadata} \cup {[key \in {META_CODE_KEY, META_DESCRIPTION_KEY} |-> code] : code \in TaxCodes}
ProductTypes == {[kind |-> "ProductType", pk |-> TRUE, metadata |-> m] : m \in Metadatas}
Products == {[kind |-> "Product", pk |-> TRUE, charge_taxes |-> c, metadata |-> m, product_type |-> t] : c \in BOOLEAN, m \in Metadatas, t \in ProductTypes}
MetaObjects == {[kind |-> k, pk |-> pk, metadata |-> m] : k \in {"Product", "ProductType"}, pk \in BOOLEAN, m \in Metadatas}

Amounts == {Dec(k, 20000) : k \in 0..MaxAmount} \cup {Dec(100, 1)}
RangeAmounts == {Dec(1, 20000), Dec(100, 1)}
TaxedRangeEnds == {TaxedMoney(Dec(50, 1), Dec(50, 1)), TaxedMoney(Dec(50, 1), Dec(55, 1))}
Bases ==
    {Money(a) : a \in Amounts}
    \cup {TaxedMoney(net, gross) : net \in Amounts, gross \in Amounts}
    \cup {MoneyRange(Money(a), Money(b)) : a \in RangeAmounts, b \in RangeAmounts}
    \cup {TaxedMoneyRange(start, stop) : start \in TaxedRangeEnds, stop \in TaxedRangeEnds}
    \cup {DecimalValue(Zero)}
Prices == {Money(a) : a \in RangeAmounts} \cup {MoneyRange(Money(a), Money(b)) : a \in RangeAmounts, b \in RangeAmounts} \cup {DecimalValue(Zero)}
TaxRates == {Dec(p, 100) : p \in Percentages}

\* what the host may pass as previous_value
PreviousAmounts == {Dec(50, 1), Dec(55, 1), Dec(1, 10000)}
PreviousTaxedMoney == {TaxedMoney(net, gross) : net \in PreviousAmounts, gross \in PreviousAmounts}
PreviousDecimals == {DecimalValue(Zero), DecimalValue(Dec(23, 100))}
PreviousValues ==
    PreviousTaxedMoney
    \cup {TaxedMoneyRange(start, stop) : start \in TaxedRangeEnds, stop \in TaxedRangeEnds}
    \cup {OrderTaxedPricesData(TaxedMoney(Dec(50, 1), Dec(50, 1)), discounted) : discounted \in TaxedRangeEnds}
    \cup PreviousDecimals
    \cup {TaxType("previous", "previous"), NoneValue}
\* a previous_value of the stage's declared type, untaxed and taxed
PreviousPrices == TaxedRangeEnds

\* the product of every line: taxes charged, no tax code of its own
LineProduct == [kind |-> "Product", pk |-> TRUE, charge_taxes |-> TRUE, metadata |-> NoMetadata, product_type |-> [kind |-> "ProductType", pk |-> TRUE, metadata |-> NoMetadata]]

\* a line's base unit price and quantity: one unit that is free, costs one
\* cent or costs two cents, or two units of one cent
LineShapes == {<<Zero, 1>>, <<Dec(1, 100), 1>>, <<Dec(2, 100), 1>>, <<Dec(1, 100), 2>>}
Discounts == {Dec(k, 100) : k \in 0..MaxDiscount}
Voucher(type, apply_once_per_order) == [kind |-> "Voucher", type |-> type, apply_once_per_order |-> apply_once_per_order]
Vouchers == {NoneValue, Voucher("ENTIRE_ORDER", FALSE), Voucher("ENTIRE_ORDER", TRUE), Voucher("SHIPPING", FALSE)}

CheckoutLines == {[price |-> shape[1], quantity |-> shape[2], product |-> LineProduct] : shape \in LineShapes}
Checkout(voucher, discount_amount, lines) == [kind |-> "checkout", voucher |-> voucher, discount_amount |-> discount_amount, lines |-> lines, include_taxes_in_prices |-> FALSE]
CheckoutLineLists == UNION {[1..n -> CheckoutLines] : n \in 1..MaxLines}
\* an entire-order voucher with every discount; any other voucher, which
\* leaves the discount unread, with the largest one
Checkouts ==
    {Checkout(Voucher("ENTIRE_ORDER", FALSE), d, ls) : d \in Discounts, ls \in CheckoutLineLists}
    \cup {Checkout(v, Dec(MaxDiscount, 100), ls) : v \in Vouchers \ {Voucher("ENTIRE_ORDER", FALSE)}, ls \in CheckoutLineLists}

OrderLine(price, quantity, has_variant) == [kind |-> "OrderLine", price |-> price, quantity |-> quantity, has_variant |-> has_variant, product |-> LineProduct, undiscounted_base_unit_price |-> price]
\* an order line has a variant, or has lost it (line.variant is None)
OrderLines == {OrderLine(shape[1], shape[2], TRUE) : shape \in LineShapes} \cup {OrderLine(Dec(1, 100), 1, FALSE)}
Orders == {[kind |-> "order", discount_amount |-> d, lines |-> ls, include_taxes_in_prices |-> FALSE] : d \in Discounts, ls \in UNION {[1..n -> OrderLines] : n \in 1..MaxLines}}

Idle == [stage |-> "idle"]
Call(stage, args, previous_value, returned, computed) == [stage |-> stage, args |-> args, previous_value |-> previous_value, returned |-> returned, computed |-> computed]
Bool(b) == [kind |-> "bool", bool |-> b]

-----------------------------------------------------------------------------
(* The plugin under the host pipeline: configuration and stage calls.  The
   host is single-threaded: it makes one call, takes its result, and only
   then makes the next. *)

Init ==
    /\ active \in BOOLEAN
    /\ flat_taxes \in RateTables
    /\ rounding \in RoundingModes
    /\ call = Idle
    /\ request = [kind |-> "idle"]
    /\ progress = <<>>

\* FlatTaxPlugin.__init__: the host loads a plugin configuration
Configure ==
    /\ \E a \in BOOLEAN, table \in RateTables:
          /\ <<a, table>> # <<active, flat_taxes>>
          /\ active' = a
          /\ flat_taxes' = table
    /\ call = Idle
    /\ UNCHANGED <<call, rounding, request, progress>>

SkipPlugin ==
    /\ call = Idle
    /\ \E previous_value \in PreviousValues:
          call' = Call("_skip_plugin", [none |-> TRUE], previous_value, Bool(_skip_plugin(previous_value)), TRUE)
    /\ UNCHANGED <<active, flat_taxes, rounding, request, progress>>

FlatTax ==
    /\ call = Idle
    /\ \E base \in Bases, tax_rate \in TaxRates, keep_gross \in BOOLEAN:
          call' = Call("flat_tax", [base |-> base, tax_rate |-> tax_rate, keep_gross |-> keep_gross, first |-> NoneValue], NoneValue,
                       flat_tax(base, tax_rate, keep_gross, rounding), TRUE)
    /\ UNCHANGED <<active, flat_taxes, rounding, request, progress>>

\* the caller passes the TaxedMoney that flat_tax returned, or its gross as
\* Money, to flat_tax again, at the same rate; args.first keeps the first call
FlatTaxAgain ==
    /\ call.stage = "flat_tax"
    /\ call.args.first.kind = "None"
    /\ call.returned.kind = "TaxedMoney"
    /\ \E base \in {call.returned, Money(call.returned.gross)}, keep_gross \in BOOLEAN:
          call' = Call("flat_tax", [base |-> base, tax_rate |-> call.args.tax_rate, keep_gross |-> keep_gross,
                                    first |-> [kind |-> "call", base |-> call.args.base, keep_gross |-> call.args.keep_gross, returned |-> call.returned]],
                       NoneValue, flat_tax(base, call.args.tax_rate, keep_gross, rounding), TRUE)
    /\ UNCHANGED <<active, flat_taxes, rounding, request, progress>>

ApplyTaxToPrice ==
    /\ call = Idle
    /\ \E taxes \in {NoTaxes, _get_taxes}, rate_name \in TaxCodes \cup {None, DEFAULT_TAX_RATE_NAME}, base \in Prices \cup TaxedRangeEnds, include_taxes_in_prices \in BOOLEAN:
          call' = Call("apply_tax_to_price", [taxes |-> taxes, rate_name |-> rate_name, base |-> base, include_taxes_in_prices |-> include_taxes_in_prices], NoneValue,
                       apply_tax_to_price(taxes, rate_name, base, include_taxes_in_prices, rounding), TRUE)
    /\ UNCHANGED <<active, flat_taxes, rounding, request, progress>>

GetTaxRateByName ==
    /\ call = Idle
    /\ \E taxes \in {NoTaxes, _get_taxes}, rate_name \in TaxCodes \cup {None, DEFAULT_TAX_RATE_NAME}:
          call' = Call("get_tax_rate_by_name", [taxes |-> taxes, rate_name |-> rate_name], NoneValue,
                       get_tax_rate_by_name(rate_name, taxes), TRUE)
    /\ UNCHANGED <<active, flat_taxes, rounding, request, progress>>

ApplyTaxesToProduct ==
    /\ call = Idle
    /\ \E product \in Products, price \in {Money(a) : a \in RangeAmounts}, previous_value \in PreviousPrices, include_taxes_in_prices \in BOOLEAN:
          call' = Call("apply_taxes_to_product", [product |-> product, price |-> price, include_taxes_in_prices |-> include_taxes_in_prices, tax_rate |-> IF _skip_plugin(previous_value) THEN None ELSE __get_tax_data_for_product(product).tax_rate], previous_value,
                       apply_taxes_to_product(product, price, previous_value, include_taxes_in_prices), ~_skip_plugin(previous_value))
    /\ UNCHANGED <<active, flat_taxes, rounding, request, progress>>

ApplyTaxesToShipping ==
    /\ call = Idle
    /\ \E price \in {Money(a) : a \in RangeAmounts}, previous_value \in PreviousPrices, charge_taxes_on_shipping \in BOOLEAN, include_taxes_in_prices \in BOOLEAN:
          call' = Call("apply_taxes_to_shipping", [price |-> price, charge_taxes_on_shipping |-> charge_taxes_on_shipping, include_taxes_in_prices |-> include_taxes_in_prices], previous_value,
                       apply_taxes_to_shipping(price, previous_value, charge_taxes_on_shipping, include_taxes_in_prices), ~_skip_plugin(previous_value))
    /\ UNCHANGED <<active, flat_taxes, rounding, request, progress>>

GetCheckoutLineTaxRate ==
    /\ call = Idle
    /\ \E product \in Products, previous_value \in PreviousDecimals \cup PreviousPrices:
          call' = Call("get_checkout_line_tax_rate", [product |-> product, tax_rate |-> IF _skip_plugin(previous_value) THEN None ELSE __get_tax_data_for_product(product).tax_rate], previous_value,
                       get_checkout_line_tax_rate(product, previous_value), ~_skip_plugin(previous_value))
    /\ UNCHANGED <<active, flat_taxes, rounding, request, progress>>

GetOrderLineTaxRate ==
    /\ call = Idle
    /\ \E product \in Products, previous_value \in PreviousDecimals \cup PreviousPrices:
          call' = Call("get_order_line_tax_rate", [product |-> product, tax_rate |-> IF _skip_plugin(previous_value) THEN None ELSE __get_tax_data_for_product(product).tax_rate], previous_value,
                       get_order_line_tax_rate(product, previous_value), ~_skip_plugin(previous_value))
    /\ UNCHANGED <<active, flat_taxes, rounding, request, progress>>

\* get_checkout_shipping_tax_rate and get_order_shipping_tax_rate
GetShippingTaxRate ==
    /\ call = Idle
    /\ \E stage \in {"get_checkout_shipping_tax_rate", "get_order_shipping_tax_rate"}, previous_value \in PreviousDecimals \cup PreviousPrices:
          call' = Call(stage, [none |-> TRUE], previous_value, _get_shipping_tax_rate(previous_value), ~_skip_plugin(previous_value))
    /\ UNCHANGED <<active, flat_taxes, rounding, request, progress>>

ShowTaxesOnStorefront ==
    /\ call = Idle
    /\ \E previous_value \in {Bool(TRUE), Bool(FALSE)}:
          call' = Call("show_taxes_on_storefront", [none |-> TRUE], previous_value, show_taxes_on_storefront(previous_value), active)
    /\ UNCHANGED <<active, flat_taxes, rounding, request, progress>>

GetTaxCodeFromObjectMeta ==
    /\ call = Idle
    /\ \E obj \in MetaObjects, previous_value \in {TaxType("previous", "previous"), TaxType(None, None)}:
          call' = Call("get_tax_code_from_object_meta", [obj |-> obj], previous_value, get_tax_code_from_object_meta(obj, previous_value), TRUE)
    /\ UNCHANGED <<active, flat_taxes, rounding, request, progress>>

AssignTaxCodeToObjectMeta ==
    /\ call = Idle
    /\ \E obj \in MetaObjects, tax_code \in TaxCodes \cup {None}, previous_value \in {NoneValue, TaxType("previous", "previous")}:
          call' = Call("assign_tax_code_to_object_meta", [obj |-> obj, tax_code |-> tax_code, metadata |-> assign_tax_code_metadata(obj, tax_code)], previous_value,
                       assign_tax_code_to_object_meta(obj, tax_code, previous_value), active)
    /\ UNCHANGED <<active, flat_taxes, rounding, request, progress>>

\* the host takes the result; the next call may follow
Return ==
    /\ call # Idle
    /\ call' = Idle
    /\ UNCHANGED <<active, flat_taxes, rounding, request, progress>>

\* checkouts the host prices one line of, for the checkout-line stages
SampleCheckouts ==
    {Checkout(Voucher("ENTIRE_ORDER", FALSE), Dec(1, 100), <<l1, l2>>) : l1 \in {[price |-> Dec(2, 100), quantity |-> 1, product |-> p] : p \in Products}, l2 \in {[price |-> Dec(1, 100), quantity |-> 2, product |-> p] : p \in {LineProduct}}}

\* calculate_checkout_line_unit_price and calculate_checkout_line_total
CalculateCheckoutLine ==
    /\ call = Idle
    /\ \E checkout \in SampleCheckouts, i \in 1..2, previous_value \in PreviousPrices, unit \in BOOLEAN:
          call' = Call(IF unit THEN "calculate_checkout_line_unit_price" ELSE "calculate_checkout_line_total",
                       [checkout |-> checkout, line |-> i], previous_value,
                       IF unit THEN calculate_checkout_line_unit_price(checkout, i, previous_value, checkout.include_taxes_in_prices)
                       ELSE calculate_checkout_line_total(checkout, i, previous_value, checkout.include_taxes_in_prices),
                       ~_skip_plugin(previous_value))
    /\ UNCHANGED <<active, flat_taxes, rounding, request, progress>>

Next ==
    \/ Configure
    \/ Return
    \/ SkipPlugin
    \/ FlatTax
    \/ FlatTaxAgain
    \/ CalculateCheckoutLine
    \/ ApplyTaxToPrice
    \/ GetTaxRateByName
    \/ ApplyTaxesToProduct
    \/ ApplyTaxesToShipping
    \/ GetCheckoutLineTaxRate
    \/ GetOrderLineTaxRate
    \/ GetShippingTaxRate
    \/ ShowTaxesOnStorefront
    \/ GetTaxCodeFromObjectMeta
    \/ AssignTaxCodeToObjectMeta

Spec == Init /\ [][Next]_vars

-----------------------------------------------------------------------------
(* The plugin pricing a checkout line by line, or the lines of an order *)

ProrationInit ==
    /\ active = TRUE
    /\ flat_taxes = DEFAULT_CONFIGURATION
    /\ rounding \in RoundingModes
    /\ call = Idle
    /\ request = [kind |-> "idle"]
    /\ progress = <<>>

\* the host starts pricing a checkout
NewCheckout ==
    /\ request.kind = "idle"
    /\ request' \in Checkouts
    /\ progress' = <<>>
    /\ UNCHANGED <<active, flat_taxes, rounding, call>>

\* the host starts pricing an order
NewOrder ==
    /\ request.kind = "idle"
    /\ request' \in Orders
    /\ progress' = <<>>
    /\ UNCHANGED <<active, flat_taxes, rounding, call>>

\* the host calls calculate_checkout_line_unit_price for the next line of
\* the checkout, in list order; an exception ends the request.  The entry
\* added to progress holds what the call computed: discount_amount (when
\* the discount was prorated over two or more lines), the discounted unit
\* price, the value returned.
CalculateCheckoutLineUnitPrice ==
    /\ request.kind = "checkout"
    /\ Len(progress) < Len(request.lines)
    /\ \A k \in 1..Len(progress): progress[k].returned.kind # "Error"
    \* the manager's default: the base price, untaxed
    /\ \E previous_value \in {TaxedMoney(request.lines[Len(progress) + 1].price, request.lines[Len(progress) + 1].price)}:
          LET i == Len(progress) + 1
              skipped == _skip_plugin(previous_value)
              line_price == request.lines[i].price
              prorated == ~skipped /\ ~voucher_not_prorated(request.voucher) /\ Len(request.lines) > 1 /\ order_total_price(request.lines) # Zero
          IN  progress' = Append(progress,
                  [skipped |-> skipped,
                   discount_amount |-> IF prorated THEN DecimalValue(checkout_line_discount_amount(request, i, line_price, rounding)) ELSE NoneValue,
                   unit_price |-> IF skipped THEN NoneValue ELSE apply_checkout_discount_on_checkout_line(request, i, line_price, rounding),
                   returned |-> calculate_checkout_line_unit_price(request, i, previous_value, request.include_taxes_in_prices)])
    /\ UNCHANGED <<active, flat_taxes, rounding, call, request>>

\* the host calls update_taxes_for_order_lines on the lines of the order
UpdateTaxesForOrderLines ==
    /\ request.kind = "order"
    /\ progress = <<>>
    /\ \E previous_value \in {NoneValue} \cup PreviousPrices:
          progress' = <<update_taxes_for_order_lines(request, previous_value, request.include_taxes_in_prices)>>
    /\ UNCHANGED <<active, flat_taxes, rounding, call, request>>

\* the request is answered; its entities are discarded
Finish ==
    /\ request.kind # "idle"
    /\ request' = [kind |-> "idle"]
    /\ progress' = <<>>
    /\ UNCHANGED <<active, flat_taxes, rounding, call>>

ProrationNext ==
    \/ NewCheckout
    \/ NewOrder
    \/ CalculateCheckoutLineUnitPrice
    \/ UpdateTaxesForOrderLines
    \/ Finish

ProrationSpec == ProrationInit /\ [][ProrationNext]_vars

-----------------------------------------------------------------------------------------------------------------------------------------------------
(* Properties of the plugin's stages and of the library, under Spec *)

\* C2 as stated: _skip_plugin on a TaxedMoney is true exactly when its net
\* and gross differ, in every state of the plugin.
C2_SkipIffNetDiffersFromGross ==
    (call.stage = "_skip_plugin" /\ call.previous_value.kind = "TaxedMoney")
    => (call.returned.bool <=> call.previous_value.net # call.previous_value.gross)

\* C2 amended: _skip_plugin on a TaxedMoney is true exactly when the plugin
\* is inactive or the net and gross differ.
C2_SkipIffInactiveOrNetDiffersFromGross ==
    (call.stage = "_skip_plugin" /\ call.previous_value.kind = "TaxedMoney")
    => (call.returned.bool <=> (~active \/ call.previous_value.net # call.previous_value.gross))

\* the active plugin skips a TaxedMoney whose net and gross differ
C2_Witness ==
    /\ call.stage = "_skip_plugin" /\ call.previous_value.kind = "TaxedMoney"
    /\ active
    /\ call.previous_value.net # call.previous_value.gross
    /\ call.returned = Bool(TRUE)

\* the stage methods that receive previous_value
StageMethods ==
    {"apply_taxes_to_product", "apply_taxes_to_shipping", "get_checkout_line_tax_rate", "get_order_line_tax_rate",
     "get_checkout_shipping_tax_rate", "get_order_shipping_tax_rate", "calculate_checkout_line_unit_price",
     "calculate_checkout_line_total", "show_taxes_on_storefront", "get_tax_code_from_object_meta",
     "assign_tax_code_to_object_meta"}

\* C3: every stage method, get_tax_code_from_object_meta included, returns
\* previous_value unchanged and computes nothing whenever the skip predicate
\* is true for previous_value.
C3_StagePassesPreviousValueThrough ==
    (call.stage \in StageMethods /\ _skip_plugin(call.previous_value))
    => (call.returned = call.previous_value /\ ~call.computed)

\* C4 as stated: flat_tax on a TaxedMoney with keep_gross keeps the gross and
\* sets the net to gross / (1 + rate); without keep_gross it keeps the net
\* and sets the gross to net * (1 + rate); each rounded to four decimals.
C4_TaxedMoneyDerivedFromOtherSide ==
    (call.stage = "flat_tax" /\ call.args.base.kind = "TaxedMoney")
    => IF call.args.keep_gross
       THEN call.returned = TaxedMoney(quantize(DDiv(call.args.base.gross, DAdd(DInt(1), call.args.tax_rate)), precision, rounding), call.args.base.gross)
       ELSE call.returned = TaxedMoney(call.args.base.net, quantize(DMul(call.args.base.net, DAdd(DInt(1), call.args.tax_rate)), precision, rounding))

\* C4 amended: flat_tax on a TaxedMoney with keep_gross keeps the gross and
\* sets the net to the given net / (1 + rate); without keep_gross it keeps
\* the net and sets the gross to the given gross * (1 + rate); each rounded
\* to four decimals.
C4_TaxedMoneyDerivedFromSameSide ==
    (call.stage = "flat_tax" /\ call.args.base.kind = "TaxedMoney")
    => IF call.args.keep_gross
       THEN call.returned = TaxedMoney(quantize(DDiv(call.args.base.net, DAdd(DInt(1), call.args.tax_rate)), precision, rounding), call.args.base.gross)
       ELSE call.returned = TaxedMoney(call.args.base.net, quantize(DMul(call.args.base.gross, DAdd(DInt(1), call.args.tax_rate)), precision, rounding))

\* flat_tax with keep_gross on a TaxedMoney whose net and gross differ, at a
\* rate above zero: the net returned is not the gross divided by 1 + rate
C4_Witness ==
    /\ call.stage = "flat_tax" /\ call.args.base.kind = "TaxedMoney"
    /\ call.args.keep_gross
    /\ call.args.base.net # call.args.base.gross
    /\ call.args.tax_rate # Zero
    /\ call.returned.gross = call.args.base.gross
    /\ call.returned.net # quantize(DDiv(call.args.base.gross, DAdd(DInt(1), call.args.tax_rate)), precision, rounding)

\* the stages that resolve the tax rate of a product
RateStages == {"get_checkout_line_tax_rate", "get_order_line_tax_rate"}

\* C5 as stated: for a product whose charge_taxes is false the rate stage
\* returns 0, whatever the rate table and the previous value.
C5_UnchargedProductRateIsZero ==
    (call.stage \in RateStages /\ ~call.args.product.charge_taxes)
    => call.returned = DecimalValue(Zero)

\* C5 amended: for a product whose charge_taxes is false the rate stage
\* returns the previous value, whatever the rate table.
C5_UnchargedProductRateIsPreviousValue ==
    (call.stage \in RateStages /\ ~call.args.product.charge_taxes)
    => call.returned = call.previous_value

\* the active plugin, its table holding the product's rate name at a rate
\* above zero, answers the previous value 0.23 for an uncharged product
C5_Witness ==
    /\ call.stage \in RateStages
    /\ ~call.args.product.charge_taxes
    /\ active /\ call.computed
    /\ call.args.tax_rate \in DOMAIN flat_taxes
    /\ flat_taxes[call.args.tax_rate] > 0
    /\ call.previous_value = DecimalValue(Dec(23, 100))
    /\ call.returned = DecimalValue(Dec(23, 100))

\* C8: with a non-empty table and a non-empty rate name, apply_tax_to_price
\* applies the entry of the name when the table has it, else the entry of
\* "standard", and fails with a key error when the table has neither.
C8_ApplyTaxLooksUpNameThenDefault ==
    (call.stage = "apply_tax_to_price" /\ ~NotTaxes(call.args.taxes) /\ ~NotName(call.args.rate_name))
    => IF call.args.rate_name \in DOMAIN call.args.taxes.rates
       THEN call.returned = flat_tax(call.args.base, Dec(call.args.taxes.rates[call.args.rate_name].value, 100), call.args.include_taxes_in_prices, rounding)
       ELSE IF "standard" \in DOMAIN call.args.taxes.rates
       THEN call.returned = flat_tax(call.args.base, Dec(call.args.taxes.rates["standard"].value, 100), call.args.include_taxes_in_prices, rounding)
       ELSE call.returned = Raised("KeyError")

\* a name the table lacks, in a non-empty table without "standard": key error
C8_Witness ==
    /\ call.stage = "apply_tax_to_price"
    /\ ~NotTaxes(call.args.taxes) /\ ~NotName(call.args.rate_name)
    /\ call.args.rate_name \notin DOMAIN call.args.taxes.rates
    /\ "standard" \notin DOMAIN call.args.taxes.rates
    /\ call.returned = Raised("KeyError")

\* the stages that resolve the rate name of a product, when they did
ResolvedRateName == call.stage \in RateStages \cup {"apply_taxes_to_product"} /\ call.computed

HasTaxCode(obj) == META_CODE_KEY \in DOMAIN obj.metadata

\* C9 as stated: the resolved rate name is the product's own tax code when
\* one is set, else the product type's tax code when one is set, else null.
C9_RateNameOfProductThenTypeThenNull ==
    ResolvedRateName
    => call.args.tax_rate =
          IF HasTaxCode(call.args.product) THEN call.args.product.metadata[META_CODE_KEY]
          ELSE IF HasTaxCode(call.args.product.product_type) THEN call.args.product.product_type.metadata[META_CODE_KEY]
          ELSE None

\* C9 amended: the resolved rate name is the product's own tax code when one
\* is set and not empty, else the product type's tax code when one is set,
\* else "standard".
C9_RateNameOfProductThenTypeThenStandard ==
    ResolvedRateName
    => call.args.tax_rate =
          IF HasTaxCode(call.args.product) /\ call.args.product.metadata[META_CODE_KEY] # ""
          THEN call.args.product.metadata[META_CODE_KEY]
          ELSE IF HasTaxCode(call.args.product.product_type) THEN call.args.product.product_type.metadata[META_CODE_KEY]
          ELSE DEFAULT_TAX_RATE_NAME

\* neither the product nor its type has a tax code: the name is "standard"
C9_Witness ==
    /\ ResolvedRateName
    /\ ~HasTaxCode(call.args.product)
    /\ ~HasTaxCode(call.args.product.product_type)
    /\ call.args.tax_rate = "standard"

\* flat_tax called on a Money m without keep_gross, and then again at the
\* same rate with keep_gross
SecondOfRoundTrip ==
    /\ call.stage = "flat_tax"
    /\ call.args.first.kind = "call"
    /\ call.args.first.base.kind = "Money"
    /\ ~call.args.first.keep_gross
    /\ call.args.keep_gross

\* |a - b| <= 0.0001
WithinPrecision(a, b) == DLeq(DSub(a, b), precision) /\ DLeq(DSub(b, a), precision)

\* C10 as stated: flat_tax with keep_gross on the TaxedMoney that flat_tax
\* without keep_gross returned for a Money m, at the same rate, yields a net
\* within 0.0001 of m.
C10_RoundTripOfTaxedMoneyReturnsNet ==
    (SecondOfRoundTrip /\ call.args.base = call.args.first.returned)
    => WithinPrecision(call.returned.net, call.args.first.base.amount)

\* C10 amended: called on that TaxedMoney, flat_tax with keep_gross yields
\* the net m / (1 + rate) rounded to four decimals; called on its gross as a
\* Money, it yields a net within 0.0001 of m.
C10_RoundTripOfGrossReturnsNet ==
    /\ (SecondOfRoundTrip /\ call.args.base = call.args.first.returned)
       => call.returned.net = quantize(DDiv(call.args.first.base.amount, DAdd(DInt(1), call.args.tax_rate)), precision, rounding)
    /\ (SecondOfRoundTrip /\ call.args.base = Money(call.args.first.returned.gross))
       => WithinPrecision(call.returned.net, call.args.first.base.amount)

\* the gross of the first result, taxed at a rate above zero and rounded,
\* goes back to a net that differs from m within the tolerance
C10_Witness ==
    /\ SecondOfRoundTrip
    /\ call.args.base = Money(call.args.first.returned.gross)
    /\ call.args.tax_rate # Zero
    /\ call.returned.net # call.args.first.base.amount
    /\ WithinPrecision(call.returned.net, call.args.first.base.amount)

\* a rate stage resolved the rate of a product that charges taxes, under a
\* rate table that is not empty and a rate name that is not empty
ChargedProductRateResolved ==
    /\ call.stage \in RateStages /\ call.computed
    /\ call.args.product.charge_taxes
    /\ flat_taxes # EmptyRates
    /\ ~NotName(call.args.tax_rate)

\* C12: for a product that charges taxes, the rate stage returns 0 when the
\* rate table has an entry neither for the resolved rate name nor for
\* "standard", and the percentage of the matched entry divided by 100 in
\* every other case.
C12_ChargedProductRateIsZeroWithoutEntry ==
    ChargedProductRateResolved
    => call.returned =
          IF call.args.tax_rate \in DOMAIN flat_taxes THEN DecimalValue(Dec(flat_taxes[call.args.tax_rate], 100))
          ELSE IF DEFAULT_TAX_RATE_NAME \in DOMAIN flat_taxes THEN DecimalValue(Dec(flat_taxes[DEFAULT_TAX_RATE_NAME], 100))
          ELSE DecimalValue(Zero)

-----
(* Properties of the proration of a discount, under ProrationSpec *)

\* the checkout of request is priced to the end: every line, or every line
\* up to the one whose pricing raised
CheckoutPriced ==
    /\ request.kind = "checkout"
    /\ Len(progress) > 0
    /\ (Len(progress) = Len(request.lines) \/ progress[Len(progress)].returned.kind = "Error")

\* the entire-order voucher of request is prorated over its lines
CheckoutProrated == request.kind = "checkout" /\ ~voucher_not_prorated(request.voucher)

\* the discount amounts the line calls used, in line order
DiscountsUsed == [k \in 1..Len(progress) |-> IF progress[k].discount_amount.kind = "Decimal" THEN progress[k].discount_amount.value ELSE Zero]

\* C1: for a checkout of two or more lines under an entire-order voucher
\* whose discount does not exceed the sum of the line totals, the discount
\* amounts used by apply_checkout_discount_on_checkout_line over all the
\* lines sum exactly to the total discount.
C1_CheckoutDiscountsSumToTotal ==
    (CheckoutPriced /\ CheckoutProrated /\ Len(request.lines) >= 2
        /\ DLeq(request.discount_amount, order_total_price(request.lines)))
    => DSum(DiscountsUsed) = request.discount_amount

\* a three-line checkout priced to the end where the share of a line before
\* the last was rounded, the last line taking the remainder
C1_Witness ==
    /\ CheckoutPriced /\ CheckoutProrated
    /\ Len(request.lines) = 3 /\ Len(progress) = 3
    /\ DLeq(request.discount_amount, order_total_price(request.lines))
    /\ \E k \in 1..2:
          /\ progress[k].discount_amount.kind = "Decimal"
          /\ progress[k].discount_amount.value
                # DMul(DDiv(base_line_total(request.lines[k]), order_total_price(request.lines)), request.discount_amount)
    /\ progress[3].discount_amount.kind = "Decimal"
    /\ DSum(DiscountsUsed) = request.discount_amount

\* the order of request went through update_taxes_for_order_lines
OrderUpdated == request.kind = "order" /\ Len(progress) = 1 /\ ~progress[1].skipped

\* C6: no discounted unit price is negative, in the checkout path and in the
\* order path, whatever the discount (the sum of the line totals exceeded
\* or not).
C6_DiscountedUnitPriceNotNegative ==
    /\ request.kind = "checkout" =>
          \A k \in 1..Len(progress):
             progress[k].unit_price.kind = "Money" => DLeq(Zero, progress[k].unit_price.amount)
    /\ OrderUpdated =>
          \A k \in 1..Len(request.lines):
             progress[1].price_with_discounts[k].kind = "Money" => DLeq(Zero, progress[1].price_with_discounts[k].amount)

\* an order whose discount exceeds the sum of its line totals: the line
\* total less the discount of a line is negative and the price is zero
C6_Witness ==
    /\ OrderUpdated
    /\ DLess(order_total_price(request.lines), request.discount_amount)
    /\ \E k \in 1..Len(request.lines):
          /\ progress[1].discount_amount[k].kind = "Decimal"
          /\ DLess(base_line_total(request.lines[k]), progress[1].discount_amount[k].value)
          /\ progress[1].price_with_discounts[k] = zero_money

\* min(a, b)
DMin(a, b) == IF DLess(b, a) THEN b ELSE a

\* the discount a single line absorbed: its total less unit price * quantity
Absorbed(line, unit_price) == DSub(base_line_total(line), DMul(unit_price.amount, DInt(line.quantity)))

SingleLineCheckout == CheckoutProrated /\ Len(request.lines) = 1 /\ Len(progress) = 1 /\ progress[1].unit_price.kind = "Money"
SingleLineOrder == OrderUpdated /\ Len(request.lines) = 1 /\ progress[1].price_with_discounts[1].kind = "Money"

\* C7 as stated: with a single line, in the checkout path and in the order
\* path, the line total less the resulting unit price * quantity equals
\* min(total discount, line total).
C7_SingleLineAbsorbsDiscount ==
    /\ SingleLineCheckout =>
          Absorbed(request.lines[1], progress[1].unit_price) = DMin(request.discount_amount, base_line_total(request.lines[1]))
    /\ SingleLineOrder =>
          Absorbed(request.lines[1], progress[1].price_with_discounts[1]) = DMin(request.discount_amount, base_line_total(request.lines[1]))

\* C7 amended: the single checkout line, whose unit price is not rounded,
\* absorbs exactly min(total discount, line total); the single order line,
\* whose unit price is quantized to the cent, absorbs it to within half a
\* cent per unit.
C7_SingleLineAbsorbsDiscountToHalfCentPerUnit ==
    /\ SingleLineCheckout =>
          Absorbed(request.lines[1], progress[1].unit_price) = DMin(request.discount_amount, base_line_total(request.lines[1]))
    /\ SingleLineOrder =>
          LET diff == DSub(Absorbed(request.lines[1], progress[1].price_with_discounts[1]),
                           DMin(request.discount_amount, base_line_total(request.lines[1])))
              bound == DMul(DInt(request.lines[1].quantity), DMul(currency_exp, Dec(1, 2)))
          IN  DLeq(diff, bound) /\ DLeq(DSub(Zero, bound), diff)

\* a single checkout line whose discount exceeds its total: the price is
\* floored at zero and the line absorbs its own total
C7_Witness ==
    /\ SingleLineCheckout
    /\ DLess(base_line_total(request.lines[1]), request.discount_amount)
    /\ DLess(Zero, base_line_total(request.lines[1]))
    /\ Absorbed(request.lines[1], progress[1].unit_price) = base_line_total(request.lines[1])

\* max(0, (line total - line discount) / quantity)
FlooredUnitPrice(line, discount) == DMax(Zero, DDiv(DSub(base_line_total(line), discount), DInt(line.quantity)))

\* the prorated checkout of request has two or more lines, and the call for
\* its line at position k computed a discount and a price
MultiLineCheckout == CheckoutProrated /\ Len(request.lines) >= 2
CheckoutLinePriced(k) == progress[k].unit_price.kind = "Money" /\ progress[k].discount_amount.kind = "Decimal"
\* the order of request has a discount, and the pass of the loop for its line
\* at position k computed a discount and a price
DiscountedOrder == OrderUpdated /\ request.discount_amount # Zero
OrderLinePriced(k) == progress[1].price_with_discounts[k].kind = "Money" /\ progress[1].discount_amount[k].kind = "Decimal"

\* the multi-line path of the checkout and the order quantize the price
QuantizedOnMultiLinePaths ==
    /\ MultiLineCheckout =>
          \A k \in 1..Len(progress):
             CheckoutLinePriced(k) =>
                progress[k].unit_price.amount = quantize_price(FlooredUnitPrice(request.lines[k], progress[k].discount_amount.value), rounding)
    /\ DiscountedOrder =>
          \A k \in 1..Len(request.lines):
             OrderLinePriced(k) =>
                progress[1].price_with_discounts[k].amount = quantize_price(FlooredUnitPrice(request.lines[k], progress[1].discount_amount[k].value), rounding)

\* C11 as stated: every discounted unit price of the proration is
\* max(0, (line total - line discount) / quantity) quantized to the cent, on
\* the single-line and multi-line paths of the checkout and in the order.
C11_UnitPriceQuantizedOnEveryPath ==
    /\ SingleLineCheckout =>
          progress[1].unit_price.amount = quantize_price(FlooredUnitPrice(request.lines[1], request.discount_amount), rounding)
    /\ QuantizedOnMultiLinePaths

\* C11 amended: the discounted unit price is max(0, (line total - line
\* discount) / quantity) quantized to the cent on the multi-line path of the
\* checkout and in the order with a discount; on the single-line path of the
\* checkout it is that value as the division gives it, not quantized.
C11_UnitPriceQuantizedButOnSingleCheckoutLine ==
    /\ SingleLineCheckout =>
          progress[1].unit_price.amount = FlooredUnitPrice(request.lines[1], request.discount_amount)
    /\ QuantizedOnMultiLinePaths

\* an order of two or more lines where the price of a line of two units was
\* rounded to the cent: it differs from the quotient and is its quantization
C11_Witness ==
    /\ DiscountedOrder /\ Len(request.lines) >= 2
    /\ \E k \in 1..Len(request.lines):
          /\ OrderLinePriced(k)
          /\ progress[1].price_with_discounts[k].amount # FlooredUnitPrice(request.lines[k], progress[1].discount_amount[k].value)
          /\ progress[1].price_with_discounts[k].amount = quantize_price(FlooredUnitPrice(request.lines[k], progress[1].discount_amount[k].value), rounding)

\* the loop of update_taxes_for_order_lines ran over every line of the order
\* of request, which has a discount
DiscountedOrderLoopDone == DiscountedOrder /\ progress[1].returned.kind = "list"

\* C13: in update_taxes_for_order_lines with a non-zero total discount, a
\* line before the last is assigned the quantized proportional share, the
\* last line is assigned the total discount less the discounts accumulated
\* so far, and once the loop has run over every line, with a variant or
\* without, total_line_discounts equals the total discount exactly.
C13_OrderDiscountsAccumulateToTotal ==
    DiscountedOrderLoopDone
    => /\ \A k \in 1..Len(request.lines) - 1:
             request.lines[k].has_variant =>
                progress[1].discount_amount[k]
                   = DecimalValue(proportional_share(base_line_total(request.lines[k]), order_total_price(request.lines), request.discount_amount, rounding))
       /\ request.lines[Len(request.lines)].has_variant =>
             progress[1].discount_amount[Len(request.lines)]
                = DecimalValue(DSub(request.discount_amount,
                                    DSum([k \in 1..Len(request.lines) - 1 |->
                                             IF progress[1].discount_amount[k].kind = "Decimal" THEN progress[1].discount_amount[k].value ELSE Zero])))
       /\ progress[1].total_line_discounts = request.discount_amount

\* the discount of request is not negative and does not exceed the sum of
\* the line totals
DiscountWithinTotal == DLeq(Zero, request.discount_amount) /\ DLeq(request.discount_amount, order_total_price(request.lines))

\* the share of the line at position k before any rounding
ExactShare(k) == DMul(DDiv(base_line_total(request.lines[k]), order_total_price(request.lines)), request.discount_amount)

\* half a cent
HalfCent == DMul(currency_exp, Dec(1, 2))

\* |a - b| <= count * half a cent
WithinHalfCents(a, b, count) == DLeq(DSub(a, b), DMul(DInt(count), HalfCent)) /\ DLeq(DSub(b, a), DMul(DInt(count), HalfCent))

\* 0 <= discount <= the total of the line
WithinLineTotal(discount, line) == DLeq(Zero, discount) /\ DLeq(discount, base_line_total(line))

\* the positions before the last whose pass of the order loop computed a share
SharedBeforeLast == {k \in 1..Len(request.lines) - 1 : request.lines[k].has_variant}

\* C14 as stated: when the total discount is not negative and does not
\* exceed the sum of the line totals, every discount amount the proration
\* computes for a line, the remainder of the last line included, is between
\* zero and the total of that line, and no line's price is increased.  The
\* orders taken are those whose lines all have a variant, so that every line
\* is given a discount.
C14_LineDiscountWithinLineTotal ==
    /\ (MultiLineCheckout /\ DiscountWithinTotal) =>
          \A k \in 1..Len(progress):
             CheckoutLinePriced(k) =>
                /\ WithinLineTotal(progress[k].discount_amount.value, request.lines[k])
                /\ DLeq(progress[k].unit_price.amount, request.lines[k].price)
    /\ (DiscountedOrder /\ DiscountWithinTotal /\ \A j \in 1..Len(request.lines): request.lines[j].has_variant) =>
          \A k \in 1..Len(request.lines):
             OrderLinePriced(k) =>
                /\ WithinLineTotal(progress[1].discount_amount[k].value, request.lines[k])
                /\ DLeq(progress[1].price_with_discounts[k].amount, request.lines[k].price)

\* C14 amended: under the same condition, the share computed for a line
\* before the last is between zero and the total of that line; the remainder
\* of the last line is the total discount less the exact shares of the lines
\* shared before it, to within half a cent for each of them, and so may be
\* negative or exceed the total of the last line.
C14_ShareWithinLineTotalAndRemainderNearExact ==
    /\ (MultiLineCheckout /\ DiscountWithinTotal) =>
          \A k \in 1..Len(progress):
             CheckoutLinePriced(k) =>
                IF k < Len(request.lines)
                THEN /\ WithinLineTotal(progress[k].discount_amount.value, request.lines[k])
                     /\ DLeq(progress[k].unit_price.amount, request.lines[k].price)
                ELSE WithinHalfCents(progress[k].discount_amount.value,
                                     DSub(request.discount_amount, DSum([j \in 1..k - 1 |-> ExactShare(j)])), k - 1)
    /\ (DiscountedOrder /\ DiscountWithinTotal) =>
          \A k \in 1..Len(request.lines):
             OrderLinePriced(k) =>
                IF k < Len(request.lines)
                THEN /\ WithinLineTotal(progress[1].discount_amount[k].value, request.lines[k])
                     /\ DLeq(progress[1].price_with_discounts[k].amount, request.lines[k].price)
                ELSE WithinHalfCents(progress[1].discount_amount[k].value,
                                     DSub(request.discount_amount, DSum([j \in 1..k - 1 |-> IF j \in SharedBeforeLast THEN ExactShare(j) ELSE Zero])),
                                     Cardinality(SharedBeforeLast))

\* a checkout of three lines, each with its share of a discount within the
\* sum of the line totals, where the remainder of the last line is negative
\* or exceeds the total of the last line
C14_Witness ==
    /\ MultiLineCheckout /\ DiscountWithinTotal
    /\ Len(request.lines) = 3 /\ Len(progress) = 3
    /\ \A k \in 1..3: CheckoutLinePriced(k)
    /\ ~WithinLineTotal(progress[3].discount_amount.value, request.lines[3])
    /\ WithinHalfCents(progress[3].discount_amount.value, ExactShare(3), 2)

====
